---- MODULE Spec2Model ----
(***************************************************************************)
(* Model of the pull-request tooling of tasks-cli:                         *)
(*   - PullRequestFilter and its translation to_oci                        *)
(*     (src/src/models/app/pull_request.py)                                *)
(*   - PullRequest.update_diff_stats and get_pull_request_diff             *)
(*   - PullRequestService.list_pull_requests, the fan-out over             *)
(*     repositories followed by the per-pull-request diff pass             *)
(*     (src/src/services/pull_requests/service.py)                         *)
(*   - the write operations of DevOpsService behind handle_oci_errors      *)
(*     (src/src/services/devops_service.py)                                *)
(*                                                                         *)
(* Python values are encoded so that values of one field always have one   *)
(* TLA+ type:                                                              *)
(*   - an optional value (None, or a dict key that may be missing) is a    *)
(*     set: {} for None / missing, {v} for the value v;                    *)
(*   - a keyword argument is doubly optional: {} not passed, {{}} passed   *)
(*     as None, {{v}} passed as v;                                         *)
(*   - a str that the code transforms is a sequence of characters.         *)
(***************************************************************************)
EXTENDS Integers, Sequences, FiniteSets, TLC

(***************************************************************************)
(* Bounds of the model.                                                    *)
(***************************************************************************)
MaxStatusLen == 2
MaxLimit == 1
MaxLines == 1
MaxFiles == 2
MaxRepos == 2
MaxPRs == 2
\* the longest text of an unexpected exception, in pieces between separators
MaxSegments == 3

(***************************************************************************)
(* Optional values.                                                        *)
(***************************************************************************)
None == {}
Some(v) == {v}
Opt(S) == {None} \cup {Some(v) : v \in S}
Val(o) == CHOOSE v \in o : TRUE
\* dict.get(key, default)
Get(o, default) == IF o = None THEN default ELSE Val(o)

RECURSIVE SumSeq(_)
\* sum(...) over a list of numbers
SumSeq(s) == IF s = <<>> THEN 0 ELSE Head(s) + SumSeq(Tail(s))

SeqsUpTo(S, n) == UNION {[1..k -> S] : k \in 0..n}

(***************************************************************************)
(* str.upper(), character by character.                                    *)
(***************************************************************************)
Lower == <<"a","b","c","d","e","f","g","h","i","j","k","l","m",
           "n","o","p","q","r","s","t","u","v","w","x","y","z">>
Upper == <<"A","B","C","D","E","F","G","H","I","J","K","L","M",
           "N","O","P","Q","R","S","T","U","V","W","X","Y","Z">>
UpperChar(c) ==
    IF \E k \in DOMAIN Lower : Lower[k] = c
    THEN Upper[CHOOSE k \in DOMAIN Lower : Lower[k] = c]
    ELSE c
str_upper(s) == [k \in DOMAIN s |-> UpperChar(s[k])]

(***************************************************************************)
(* PullRequestFilter (models/app/pull_request.py:41-59).                   *)
(***************************************************************************)
Alphabet == {"o", "O", "n", "Z", "1", "_"}
Statuses == SeqsUpTo(Alphabet, MaxStatusLen)
Limits == 0..MaxLimit
Authors == {"", "alice"}

FilterFields == {"status", "limit", "author"}
RemoteKeys == {"lifecycle_details", "limit", "created_by"}
field_mapping ==
    [status |-> "lifecycle_details", limit |-> "limit", author |-> "created_by"]

\* the dataclass defaults: status = "OPEN", limit = 10, author = None
DefaultStatus == <<"O", "P", "E", "N">>
DefaultLimit == 10
FilterDefaults ==
    [status |-> Some(DefaultStatus), limit |-> Some(DefaultLimit), author |-> None]

\* keyword arguments a caller can pass: each one omitted, None or a value
AllKwargs ==
    [status : {None} \cup {Some(o) : o \in Opt(Statuses)},
     limit  : {None} \cup {Some(o) : o \in Opt(Limits)},
     author : {None} \cup {Some(o) : o \in Opt(Authors)}]

\* the generated __init__: a keyword that is not passed takes the default
dataclass_init(kw) ==
    [k \in FilterFields |-> IF kw[k] = None THEN FilterDefaults[k] ELSE Val(kw[k])]

\* __post_init__ calls self.status.upper(): AttributeError when status is None
post_init_raises(f) == f.status = None

\* __post_init__ without the call of upper()
post_init_keeps_case(f) == f
\* __post_init__: self.status = self.status.upper()
post_init(f) == [f EXCEPT !.status = Some(str_upper(Val(f.status)))]

\* the condition of the dict comprehension, without the test for None
to_oci_includes_all(v) == TRUE
\* the condition of the dict comprehension of to_oci: v is not None
to_oci_includes(v) == v # None

\* to_oci: {field_mapping[k]: v for k, v in asdict(self).items() if v is not None}
\* The result maps each remote key to None when the dict has no such key and
\* to Some(v) when it holds v (v itself None or Some(value)).
to_oci(f) ==
    [rk \in RemoteKeys |->
        LET k == CHOOSE x \in FilterFields : field_mapping[x] = rk
        IN  IF to_oci_includes(f[k]) THEN Some(f[k]) ELSE None]

(***************************************************************************)
(* PullRequest and diff payloads (models/app/pull_request.py:7-39,         *)
(* services/pull_requests/service.py:64-86).                               *)
(***************************************************************************)
Lines == 0..MaxLines
SummaryKeys == {"lines_added", "lines_deleted", "total_changes"}
FileKeys == {"lines_added", "lines_deleted"}
\* a summary dict and a file dict: each key missing or holding a count
Summaries == [SummaryKeys -> Opt(Lines)]
FileEntries == [FileKeys -> Opt(Lines)]
FileLists == SeqsUpTo(FileEntries, MaxFiles)

\* the diff payloads of the gateway: the keys 'summary' and 'files', each
\* missing or present; a payload with a summary carries at most one file
DiffPayloads ==
    [summary : {None}, files : Opt(FileLists)]
    \cup [summary : {Some(m) : m \in Summaries},
          files : Opt(SeqsUpTo(FileEntries, 1))]

\* PullRequest(**pr_data): the three counters take their default 0
PullRequest(pr_data) ==
    [id |-> pr_data.id, repository_name |-> pr_data.repository_name,
     lines_added |-> 0, lines_deleted |-> 0, total_changes |-> 0]

\* the three counters of a pull request
Counters(pr) ==
    [lines_added |-> pr.lines_added, lines_deleted |-> pr.lines_deleted,
     total_changes |-> pr.total_changes]

\* sum(file.get(key, 0) for file in files)
SumOver(files, key) == SumSeq([k \in DOMAIN files |-> Get(files[k][key], 0)])

\* update_diff_stats adding to the counters the pull request has
update_diff_stats_accumulating(pr, diff) ==
    IF diff.summary # None
    THEN LET summary == Val(diff.summary)
         IN  [pr EXCEPT !.lines_added = @ + Get(summary["lines_added"], 0),
                        !.lines_deleted = @ + Get(summary["lines_deleted"], 0),
                        !.total_changes = @ + Get(summary["total_changes"], 0)]
    ELSE LET files == Get(diff.files, <<>>)
             la == SumOver(files, "lines_added")
             ld == SumOver(files, "lines_deleted")
         IN  [pr EXCEPT !.lines_added = @ + la, !.lines_deleted = @ + ld,
                        !.total_changes = @ + la + ld]
\* update_diff_stats looking at 'files' first
update_diff_stats_files_first(pr, diff) ==
    IF diff.files # None
    THEN LET files == Val(diff.files)
             la == SumOver(files, "lines_added")
             ld == SumOver(files, "lines_deleted")
         IN  [pr EXCEPT !.lines_added = la, !.lines_deleted = ld,
                        !.total_changes = la + ld]
    ELSE LET summary == Get(diff.summary, [k \in SummaryKeys |-> None])
         IN  [pr EXCEPT !.lines_added = Get(summary["lines_added"], 0),
                        !.lines_deleted = Get(summary["lines_deleted"], 0),
                        !.total_changes = Get(summary["total_changes"], 0)]
\* PullRequest.update_diff_stats
update_diff_stats(pr, diff) ==
    IF diff.summary # None
    THEN LET summary == Val(diff.summary)
         IN  [pr EXCEPT !.lines_added = Get(summary["lines_added"], 0),
                        !.lines_deleted = Get(summary["lines_deleted"], 0),
                        !.total_changes = Get(summary["total_changes"], 0)]
    ELSE LET files == Get(diff.files, <<>>)
             la == SumOver(files, "lines_added")
             ld == SumOver(files, "lines_deleted")
         IN  [pr EXCEPT !.lines_added = la, !.lines_deleted = ld,
                        !.total_changes = la + ld]

\* truth value of a dict: it has at least one key
dict_truthy(diff) == diff.summary # None \/ diff.files # None

\* a summary whose total counts the added lines only
normalise_diff_added_only(diff) ==
    IF dict_truthy(diff) /\ diff.summary = None
    THEN LET files == Get(diff.files, <<>>)
             la == SumOver(files, "lines_added")
             ld == SumOver(files, "lines_deleted")
         IN  [diff EXCEPT !.summary =
                Some([lines_added |-> Some(la), lines_deleted |-> Some(ld),
                      total_changes |-> Some(la)])]
    ELSE diff
\* get_pull_request_diff, the part after the gateway call (lines 76-86)
normalise_diff(diff) ==
    IF dict_truthy(diff) /\ diff.summary = None
    THEN LET files == Get(diff.files, <<>>)
             la == SumOver(files, "lines_added")
             ld == SumOver(files, "lines_deleted")
         IN  [diff EXCEPT !.summary =
                Some([lines_added |-> Some(la), lines_deleted |-> Some(ld),
                      total_changes |-> Some(la + ld)])]
    ELSE diff

(***************************************************************************)
(* The remote side of the gateway (clients/oci/devops.py).                 *)
(***************************************************************************)
Names == {"a", "b"}
\* the identifier the configuration gives a short name
OcidOf == [a |-> "ocid1.repo.a", b |-> "ocid1.repo.b"]
\* the repos section of config.ini: no name, one name or both names mapped
Mappings == {[n \in S |-> OcidOf[n]] : S \in {{}, {"a"}, {"a", "b"}}}
RepoLists == SeqsUpTo(Names, MaxRepos)

\* the keyword arguments of one list_pull_requests call: none, or a
\* lower-case status with a limit and an explicit author=None
ListKwargs ==
    {kw \in AllKwargs :
        \/ kw = [status |-> None, limit |-> None, author |-> None]
        \/ kw = [status |-> Some(Some(<<"o", "n">>)),
                 limit |-> Some(Some(MaxLimit)), author |-> Some(None)]}

\* exceptions: the class, and where it was raised (the code sees the class only)
Exc(type, origin) == [type |-> type, origin |-> origin]
\* what a call of the vendor SDK can raise: a service error of the remote
\* side (oci.exceptions.ServiceError) or a ValueError of its own argument checks
GatewayErrors == {"ServiceError", "ValueError"}

\* the repository_name of a record the provider returns for a repository:
\* missing, the identifier, or the display name (equal to the short name)
RecordRepoNames(repo_id) ==
    {None, Some(repo_id)} \cup {Some(n) : n \in {m \in Names : OcidOf[m] = repo_id}}

\* the provider returns at most `limit` records when a limit is passed
ProviderLimit(query) ==
    IF query["limit"] # None /\ Val(query["limit"]) # None
    THEN Val(Val(query["limit"]))
    ELSE MaxPRs
Min(x, y) == IF x <= y THEN x ELSE y

\* the record sequences the provider can return for list_pull_requests
ListResults(repo_id, query) ==
    {[x \in 1..k |-> [id |-> <<repo_id, x>>, repository_name |-> rn]] :
        k \in 0..Min(MaxPRs, ProviderLimit(query)), rn \in RecordRepoNames(repo_id)}

\* the diff the remote side holds for a pull request, by repository and
\* number: a summary next to a files list, a summary that lacks keys, a
\* files list alone, or an empty payload
RemoteDiff(pull_request_id) ==
    LET one == [lines_added |-> Some(1), lines_deleted |-> Some(0)]
    IN  CASE pull_request_id = <<OcidOf["a"], 1>> ->
               [summary |-> Some([lines_added |-> Some(1), lines_deleted |-> Some(1),
                                  total_changes |-> Some(2)]),
                files |-> Some(<<one>>)]
          [] pull_request_id = <<OcidOf["b"], 1>> ->
               [summary |-> Some([lines_added |-> Some(1), lines_deleted |-> None,
                                  total_changes |-> None]),
                files |-> None]
          [] pull_request_id[2] = 2 -> [summary |-> None, files |-> Some(<<one, one>>)]
          [] OTHER -> [summary |-> None, files |-> None]

(***************************************************************************)
(* State.                                                                  *)
(***************************************************************************)
VARIABLES
    repo_mapping,       \* PullRequestService.repo_mapping
    repos,              \* argument of list_pull_requests
    kwargs,             \* keyword arguments of list_pull_requests / the filter
    pc,                 \* position of the running operation
    filters,            \* the PullRequestFilter, None before it exists
    oci,                \* the last result of to_oci, None before
    i,                  \* position of the first loop in repos
    all_pull_requests,  \* the accumulated list
    j,                  \* position of the second loop in all_pull_requests
    raw_diff,           \* what get_commit_diff returned last, None before
    diff_data,          \* local diff_data of list_pull_requests, None before
    ret,                \* the returned list, None before the return
    raised,             \* the exception that left the operation, None if none
    log,                \* logger.info entries: the repository named by each
    list_calls,         \* history of the gateway's get_pull_requests calls
    diff_calls,         \* history of the gateway's get_commit_diff calls
    command,            \* the CLI command that runs, None if none
    cli_arg,            \* its --pull-request-id / the destination_branch of its file
    provider_down,      \* the provider operations that answer with a ServiceError
    output,             \* what click.echo has printed
    before,             \* the counters a pull request had when update_diff_stats
                        \* was last applied to it, None before / in the next round
    ctx_obj,            \* ctx.obj of the click context: None, or a dict with or
                        \* without the key 'debug'
    error,              \* what the wrapped command callback raises, None if nothing
    shown,              \* the ExceptionWrapper the error handler raised, None if none
    reraised            \* the exception the error handler let through, None if none

vars == <<repo_mapping, repos, kwargs, pc, filters, oci, i, all_pull_requests, j,
          raw_diff, diff_data, ret, raised, log, list_calls, diff_calls,
          command, cli_arg, provider_down, output,
          before, ctx_obj, error, shown, reraised>>

cli_vars == <<command, cli_arg, provider_down, output>>

handler_vars == <<ctx_obj, error, shown, reraised>>

pipeline_vars == <<repo_mapping, repos, i, all_pull_requests, j, raw_diff, diff_data,
                   ret, log, list_calls, diff_calls, before>>

\* the state shared by every specification before its operation starts
Idle ==
    /\ filters = None /\ oci = None /\ i = 1 /\ all_pull_requests = <<>> /\ j = 1
    /\ raw_diff = None /\ diff_data = None /\ ret = None /\ raised = None
    /\ log = <<>> /\ list_calls = <<>> /\ diff_calls = <<>>
    /\ before = None

\* no CLI command runs
NoCommand ==
    command = None /\ cli_arg = None /\ provider_down = {} /\ output = <<>>

\* no command callback runs under the error handler
NoHandler ==
    ctx_obj = None /\ error = None /\ shown = None /\ reraised = None

(***************************************************************************)
(* PullRequestFilter on its own: construction, then to_oci.                *)
(***************************************************************************)
InitFilter ==
    /\ kwargs \in AllKwargs
    /\ repo_mapping = <<>> /\ repos = <<>>
    /\ pc = "filter_new"
    /\ Idle
    /\ NoCommand
    /\ NoHandler

\* PullRequestFilter(**kwargs) with a status: __init__, then __post_init__
FilterNew ==
    /\ pc = "filter_new"
    /\ ~post_init_raises(dataclass_init(kwargs))
    /\ filters' = Some(post_init(dataclass_init(kwargs)))
    /\ pc' = "filter_built"
    /\ UNCHANGED <<kwargs, oci, raised, pipeline_vars, cli_vars, handler_vars>>

\* PullRequestFilter(status=None, ...): __post_init__ raises
FilterNewRaises ==
    /\ pc = "filter_new"
    /\ post_init_raises(dataclass_init(kwargs))
    /\ raised' = Some(Exc("AttributeError", "filter"))
    /\ pc' = "failed"
    /\ UNCHANGED <<kwargs, filters, oci, pipeline_vars, cli_vars, handler_vars>>

\* filters.to_oci()
FilterToOci ==
    /\ pc = "filter_built"
    /\ oci' = Some(to_oci(Val(filters)))
    /\ pc' = "filter_translated"
    /\ UNCHANGED <<kwargs, filters, raised, pipeline_vars, cli_vars, handler_vars>>

NextFilter == FilterNew \/ FilterNewRaises \/ FilterToOci

SpecFilter == InitFilter /\ [][NextFilter]_vars

(***************************************************************************)
(* PullRequestService.list_pull_requests (service.py:88-103) with the      *)
(* methods it calls: get_pull_requests (32-49), get_pull_request_diff      *)
(* (64-86) and PullRequest.update_diff_stats.                              *)
(***************************************************************************)
Init ==
    /\ repo_mapping \in Mappings
    /\ repos \in RepoLists
    /\ kwargs \in ListKwargs
    /\ pc = "start"
    /\ Idle
    /\ NoCommand
    /\ NoHandler

\* `except ValueError` widened to `except Exception`
list_loop_catches_all(exc) == TRUE
\* the first loop without its handler
list_loop_catches_none(exc) == FALSE
\* the handler of the first loop (line 96): except ValueError
list_loop_catches(exc) == exc.type = "ValueError"

\* the second loop guarded by a handler that skips the pull request
diff_loop_catches_all(exc) == TRUE
\* the second loop (lines 99-101) has no handler
diff_loop_catches(exc) == FALSE

\* extend that puts the new pull requests in front
list_extend_front(list, more) == more \o list
\* list.extend
\* an extend that keeps no more than filters.limit pull requests
list_extend_capped(list, more) ==
    LET all == list \o more
        limit == Val(Val(filters).limit)
    IN  SubSeq(all, 1, Min(Len(all), limit))
list_extend(list, more) == list \o more

\* the mapped identifier replaced by the short name
resolve_to_name(mapping, repo) == repo
\* self.repo_mapping[repo] for a mapped name (line 43)
resolve(mapping, repo) == mapping[repo]

\* line 89: filters = PullRequestFilter(**kwargs); all_pull_requests = []
ListStart ==
    /\ pc = "start"
    /\ IF post_init_raises(dataclass_init(kwargs))
       THEN /\ raised' = Some(Exc("AttributeError", "filter"))
            /\ pc' = "failed"
            /\ UNCHANGED filters
       ELSE /\ filters' = Some(post_init(dataclass_init(kwargs)))
            /\ pc' = "run"
            /\ UNCHANGED raised
    /\ UNCHANGED <<kwargs, oci, pipeline_vars, cli_vars, handler_vars>>

InFirstLoop == pc = "run" /\ i <= Len(repos)
\* a second loop that does not wait for the end of the first
InSecondLoop_interleaved == j <= Len(all_pull_requests)
\* the second loop (line 99) starts when the first (line 92) has ended
InSecondLoop == i > Len(repos) /\ j <= Len(all_pull_requests)

\* what the first loop does with an exception of get_pull_requests (lines 96-97)
ListLoopHandle(exc) ==
    IF list_loop_catches(exc)
    THEN /\ log' = Append(log, repos[i])
         /\ i' = i + 1
         /\ UNCHANGED <<pc, raised>>
    ELSE /\ raised' = Some(exc)
         /\ pc' = "failed"
         /\ UNCHANGED <<log, i>>

\* one iteration for a name the mapping lacks: KeyError, re-raised as
\* ValueError (lines 42-45) before any gateway call
ListUnknownRepo ==
    /\ InFirstLoop
    /\ repos[i] \notin DOMAIN repo_mapping
    /\ ListLoopHandle(Exc("ValueError", "resolver"))
    /\ UNCHANGED <<cli_vars, handler_vars, before, repo_mapping, repos, kwargs, filters, oci, all_pull_requests, j,
                   raw_diff, diff_data, ret, list_calls, diff_calls>>

\* one iteration for a mapped name whose gateway call returns `data`
ListRepoOk ==
    /\ InFirstLoop
    /\ repos[i] \in DOMAIN repo_mapping
    /\ LET repo_id == resolve(repo_mapping, repos[i])
           query == to_oci(Val(filters))
       IN  \E data \in ListResults(repo_id, query) :
             /\ list_calls' = Append(list_calls,
                    [repo |-> i, repository_id |-> repo_id, query |-> query,
                     outcome |-> "ok", data |-> data])
             /\ all_pull_requests' = list_extend(all_pull_requests,
                    [k \in DOMAIN data |-> PullRequest(data[k])])
    /\ i' = i + 1
    /\ UNCHANGED <<cli_vars, handler_vars, before, repo_mapping, repos, kwargs, pc, filters, oci, j, raw_diff,
                   diff_data, ret, raised, log, diff_calls>>

\* one iteration for a mapped name whose gateway call raises
ListRepoError ==
    /\ InFirstLoop
    /\ repos[i] \in DOMAIN repo_mapping
    /\ LET repo_id == resolve(repo_mapping, repos[i])
           query == to_oci(Val(filters))
       IN  \E type \in GatewayErrors :
             /\ list_calls' = Append(list_calls,
                    [repo |-> i, repository_id |-> repo_id, query |-> query,
                     outcome |-> type, data |-> <<>>])
             /\ ListLoopHandle(Exc(type, "gateway_list"))
    /\ UNCHANGED <<cli_vars, handler_vars, before, repo_mapping, repos, kwargs, filters, oci, all_pull_requests, j,
                   raw_diff, diff_data, ret, diff_calls>>

\* line 100 when get_commit_diff returns: diff_data = get_pull_request_diff(...)
DiffFetch ==
    /\ pc = "run"
    /\ InSecondLoop
    /\ LET pull_request == all_pull_requests[j]
           payload == RemoteDiff(pull_request.id)
       IN  /\ diff_calls' = Append(diff_calls,
                  [pr |-> j, repository_id |-> pull_request.repository_name,
                   pull_request_id |-> pull_request.id, outcome |-> "ok"])
           /\ raw_diff' = Some(payload)
           /\ diff_data' = Some(normalise_diff(payload))
    /\ pc' = "update"
    /\ UNCHANGED <<cli_vars, handler_vars, before, repo_mapping, repos, kwargs, filters, oci, i,
                   all_pull_requests, j, ret, raised, log, list_calls>>

\* line 100 when get_commit_diff raises
DiffFetchError ==
    /\ pc = "run"
    /\ InSecondLoop
    /\ \E type \in GatewayErrors :
         /\ diff_calls' = Append(diff_calls,
                [pr |-> j, repository_id |-> all_pull_requests[j].repository_name,
                 pull_request_id |-> all_pull_requests[j].id, outcome |-> type])
         /\ IF diff_loop_catches(Exc(type, "gateway_diff"))
            THEN /\ j' = j + 1
                 /\ UNCHANGED <<pc, raised>>
            ELSE /\ raised' = Some(Exc(type, "gateway_diff"))
                 /\ pc' = "failed"
                 /\ UNCHANGED j
    /\ UNCHANGED <<cli_vars, handler_vars, before, repo_mapping, repos, kwargs, filters, oci, i, all_pull_requests,
                   raw_diff, diff_data, ret, log, list_calls>>

\* line 101: pull_request.update_diff_stats(diff_data)
DiffUpdate ==
    /\ pc = "update"
    /\ all_pull_requests' = [all_pull_requests EXCEPT
            ![j] = update_diff_stats(all_pull_requests[j], Val(diff_data))]
    /\ before' = Some(Counters(all_pull_requests[j]))
    /\ j' = j + 1
    /\ pc' = "run"
    /\ UNCHANGED <<cli_vars, handler_vars, repo_mapping, repos, kwargs, filters, oci, i, raw_diff,
                   diff_data, ret, raised, log, list_calls, diff_calls>>

\* line 103: return all_pull_requests
ListReturn ==
    /\ pc = "run"
    /\ i > Len(repos)
    /\ j > Len(all_pull_requests)
    /\ ret' = Some(all_pull_requests)
    /\ pc' = "done"
    /\ UNCHANGED <<cli_vars, handler_vars, before, repo_mapping, repos, kwargs, filters, oci, i, all_pull_requests,
                   j, raw_diff, diff_data, raised, log, list_calls, diff_calls>>

Next ==
    \/ ListStart
    \/ ListUnknownRepo
    \/ ListRepoOk
    \/ ListRepoError
    \/ DiffFetch
    \/ DiffFetchError
    \/ DiffUpdate
    \/ ListReturn

Spec == Init /\ [][Next]_vars

(***************************************************************************)
(* The body of the second loop on one pull request, for every diff payload *)
(* of the bounded set: get_pull_request_diff, then update_diff_stats.      *)
(***************************************************************************)
InitEnrich ==
    /\ repo_mapping = <<>> /\ repos = <<>>
    /\ kwargs = [status |-> None, limit |-> None, author |-> None]
    /\ pc = "enrich_fetch"
    /\ filters = None /\ oci = None /\ i = 1 /\ j = 1
    /\ all_pull_requests =
         <<PullRequest([id |-> <<OcidOf["a"], 1>>, repository_name |-> None])>>
    /\ raw_diff = None /\ diff_data = None /\ ret = None /\ raised = None
    /\ log = <<>> /\ list_calls = <<>> /\ diff_calls = <<>>
    /\ before = None
    /\ NoCommand
    /\ NoHandler

\* diff_data = self.get_pull_request_diff(...), the gateway returning `payload`
EnrichFetch ==
    /\ pc = "enrich_fetch"
    /\ \E payload \in DiffPayloads :
         /\ raw_diff' = Some(payload)
         /\ diff_data' = Some(normalise_diff(payload))
    /\ pc' = "enrich_update"
    /\ UNCHANGED <<cli_vars, handler_vars, before, repo_mapping, repos, kwargs, filters, oci, i, all_pull_requests,
                   j, ret, raised, log, list_calls, diff_calls>>

\* pull_request.update_diff_stats(diff_data)
EnrichUpdate ==
    /\ pc = "enrich_update"
    /\ all_pull_requests' = [all_pull_requests EXCEPT
            ![j] = update_diff_stats(all_pull_requests[j], Val(diff_data))]
    /\ before' = Some(Counters(all_pull_requests[j]))
    /\ pc' = "enrich_done"
    /\ UNCHANGED <<cli_vars, handler_vars, repo_mapping, repos, kwargs, filters, oci, i, j, raw_diff,
                   diff_data, ret, raised, log, list_calls, diff_calls>>

\* the loop comes round again: the payload of the last round is dead, the
\* pull request keeps the counters it was given
EnrichNext ==
    /\ pc = "enrich_done"
    /\ raw_diff' = None
    /\ diff_data' = None
    /\ before' = None
    /\ pc' = "enrich_fetch"
    /\ UNCHANGED <<cli_vars, handler_vars, repo_mapping, repos, kwargs, filters, oci, i, all_pull_requests,
                   j, ret, raised, log, list_calls, diff_calls>>

NextEnrich == EnrichFetch \/ EnrichUpdate \/ EnrichNext

SpecEnrich == InitEnrich /\ [][NextEnrich]_vars

(***************************************************************************)
(* The write operations: the commands approve, merge and create            *)
(* (cli/commands/pull_request_commands.py) calling DevOpsService           *)
(* (services/devops_service.py), whose methods are decorated with          *)
(* handle_oci_errors (infrastructure/oci_error_handling.py).               *)
(***************************************************************************)
Commands == {"approve", "merge", "create"}
PullRequestIds == {"pr1", "pr2"}
Branches == {"main"}

\* the operations of the vendor client the methods of DevOpsService call
ProviderOps ==
    {"get_pull_request", "merge_pull_request", "review_pull_request",
     "update_pull_request", "get_repository", "create_pull_request"}

\* the provider operations in the body of each write method (approve with
\* those of _update_reviewers, create_pull_request with that of get_repo)
ProviderCalls ==
    [merge |-> {"get_pull_request", "merge_pull_request"},
     approve |-> {"get_pull_request", "update_pull_request", "review_pull_request"},
     create_pull_request |-> {"get_repository", "create_pull_request"}]

\* the method of DevOpsService that implements each command
WriteMethod ==
    [approve |-> "approve", merge |-> "merge", create |-> "create_pull_request"]

\* the attribute each command looks up on the service (lines 17, 27, 39)
CalledAttribute ==
    [approve |-> "pull_request_approve", merge |-> "merge",
     create |-> "create_pull_request"]

\* handle_oci_errors(operation_name) returns its inner function `decorator`,
\* which takes one positional argument, func (lines 26-35, 74)
handle_oci_errors(operation_name) ==
    [function |-> "decorator", positional |-> 1, operation_name |-> operation_name]

\* the class body: each method is written `@handle_oci_errors`, without a
\* call, so the attribute is handle_oci_errors(<the method>)
DevOpsService ==
    [name \in {"merge", "approve", "is_reviewer", "_update_reviewers", "get_repo",
               "create_pull_request"} |-> handle_oci_errors(name)]

\* devops_service.<name>(<nargs arguments>): the attribute lookup, then the
\* call of the function found, bound to the instance
call_method(name, nargs) ==
    IF name \notin DOMAIN DevOpsService
    THEN [raises |-> Some(Exc("AttributeError", "lookup"))]
    ELSE IF 1 + nargs # DevOpsService[name].positional
         THEN [raises |-> Some(Exc("TypeError", "call"))]
         ELSE [raises |-> None]

\* the handler of each command: except OCIServiceError
command_catches(exc) == exc.type = "OCIServiceError"

InitWrite ==
    /\ command \in {Some(c) : c \in Commands}
    /\ cli_arg \in IF command = Some("create") THEN Opt(Branches) ELSE Opt(PullRequestIds)
    /\ provider_down \in SUBSET ProviderOps
    /\ output = <<>>
    /\ repo_mapping = <<>> /\ repos = <<>>
    /\ kwargs = [status |-> None, limit |-> None, author |-> None]
    /\ pc = "command"
    /\ Idle
    /\ NoHandler

\* the body of a command: try: the service call, then the success echo;
\* except OCIServiceError: the error echo
RunCommand(name, done) ==
    /\ pc = "command"
    /\ command = Some(name)
    /\ LET result == call_method(CalledAttribute[name], 1)
       IN  IF result.raises = None
           THEN /\ output' = Append(output, done)
                /\ pc' = "done"
                /\ UNCHANGED raised
           ELSE IF command_catches(Val(result.raises))
                THEN /\ output' = Append(output, "Unexpected error")
                     /\ pc' = "done"
                     /\ UNCHANGED raised
                ELSE /\ raised' = result.raises
                     /\ pc' = "failed"
                     /\ UNCHANGED output
    /\ UNCHANGED <<command, cli_arg, provider_down, kwargs, filters, oci, pipeline_vars,
                 handler_vars>>

\* pull_request_commands.py:12-20
CommandApprove == RunCommand("approve", "approved")
\* pull_request_commands.py:22-30
CommandMerge == RunCommand("merge", "merged")
\* pull_request_commands.py:33-42
CommandCreate == RunCommand("create", "created")

NextWrite == CommandApprove \/ CommandMerge \/ CommandCreate

SpecWrite == InitWrite /\ [][NextWrite]_vars

(***************************************************************************)
(* The error handler of the CLI: wrap_with_error_handler (cli/errors.py)   *)
(* around a command callback, and the error classes (core/errors.py).      *)
(* A text is a sequence of pieces; the piece ": " is the separator that    *)
(* the handler splits at.                                                  *)
(***************************************************************************)
\* the application error classes and the classes the repository raises
\* outside that hierarchy (RuntimeError of the client factory, OCIServiceError)
UserClasses == {"UserError", "AuthenticationError", "ConfigurationError"}
AppClasses == UserClasses \cup {"SystemError", "AppError"}
OtherClasses == {"RuntimeError", "OCIServiceError"}

\* the base classes of each class, the class itself included
Bases ==
    [c \in AppClasses \cup OtherClasses |->
        CASE c = "UserError" -> {"UserError", "AppError", "Exception"}
          [] c \in {"AuthenticationError", "ConfigurationError"} ->
                {c, "UserError", "AppError", "Exception"}
          [] c = "SystemError" -> {"SystemError", "AppError", "Exception"}
          [] c = "AppError" -> {"AppError", "Exception"}
          [] OTHER -> {c, "Exception"}]

\* an except clause that matches the named class only, none of its subclasses
isinstance_exact(e, cls) == e.class = cls
\* the match of an except clause: the class or one of its subclasses
isinstance(e, cls) == cls \in Bases[e.class]

Messages == {"Could not reach the service"}
\* the values of fix_instructions, debug_info and original_error: None, the
\* empty string or a text
Details == {"", "detail"}
Sep == ": "
Hint == "\n\nRun with --debug for more information."
FixHeader == "\n\nTo fix this issue:\n"
DebugHeader == "\n\nDebug information: "
OriginalHeader == "\n\nOriginal error: "

\* the pieces the text of an unexpected exception is made of: plain wording,
\* the name of an exception class, the detail of a provider error
TypeNames == {"KeyError"}
Segments == {"operation failed", "status 500"} \cup TypeNames

RECURSIVE Join(_)
\* ': '.join(segments)
Join(segments) ==
    IF Len(segments) <= 1 THEN segments
    ELSE <<Head(segments), Sep>> \o Join(Tail(segments))

\* str(e) of the exceptions outside the application hierarchy
UnexpectedTexts == {Join(g) : g \in SeqsUpTo(Segments, MaxSegments) \ {<<>>}}

\* truth value of an optional string: neither None nor ''
str_truthy(v) == v # None /\ Val(v) # ""

\* the exceptions a command callback can raise
Errors ==
    [class : UserClasses, message : Messages, fix_instructions : Opt(Details),
     debug_info : {None}, original_error : Opt({"detail"}), text : {<<>>}]
    \cup [class : {"SystemError"}, message : Messages, fix_instructions : {None},
          debug_info : Opt(Details), original_error : Opt(Details), text : {<<>>}]
    \cup [class : {"AppError"}, message : Messages, fix_instructions : {None},
          debug_info : {None}, original_error : Opt({"detail"}), text : {<<>>}]
    \cup [class : OtherClasses, message : {""}, fix_instructions : {None},
          debug_info : {None}, original_error : {None}, text : UnexpectedTexts]

\* str(e): UserError.__str__, SystemError.__str__, Exception.__str__
str(e) ==
    CASE isinstance(e, "UserError") ->
            <<e.message>> \o
            (IF str_truthy(e.fix_instructions)
             THEN <<FixHeader, Val(e.fix_instructions)>> ELSE <<>>)
      [] isinstance(e, "SystemError") ->
            <<"SYSTEM ERROR", Sep, e.message>> \o
            (IF str_truthy(e.debug_info)
             THEN <<DebugHeader, Val(e.debug_info)>> ELSE <<>>)
      [] e.class = "AppError" -> <<e.message>>
      [] OTHER -> e.text

\* ctx.obj: None, a dict without the key 'debug', or a dict holding it
ContextObjects == {None} \cup {Some(d) : d \in Opt(BOOLEAN)}

\* ctx.obj and ctx.obj.get('debug', False)
debug_mode(obj) == obj # None /\ Get(Val(obj), FALSE)

\* ': ' in text
has_sep(text) == \E k \in DOMAIN text : text[k] = Sep

\* text.split(': ', 1)[1]
split_tail(text) ==
    LET first == CHOOSE k \in DOMAIN text :
                    text[k] = Sep /\ \A m \in 1..(k - 1) : text[m] # Sep
    IN  SubSeq(text, first + 1, Len(text))

\* click.style(message, fg=fg) in an ExceptionWrapper
ExceptionWrapper(message, fg) == [message |-> message, fg |-> fg]

InitCli ==
    /\ ctx_obj \in ContextObjects
    /\ error \in Opt(Errors)
    /\ shown = None /\ reraised = None
    /\ pc = "invoke"
    /\ repo_mapping = <<>> /\ repos = <<>>
    /\ kwargs = [status |-> None, limit |-> None, author |-> None]
    /\ Idle
    /\ NoCommand

\* line 82: the callback returns
HandleReturn ==
    /\ pc = "invoke"
    /\ error = None
    /\ pc' = "returned"
    /\ UNCHANGED <<shown, reraised>>
    /\ UNCHANGED <<ctx_obj, error, kwargs, filters, oci, raised, pipeline_vars, cli_vars>>

\* lines 83-89: except UserError
HandleUserError ==
    /\ pc = "invoke"
    /\ error # None
    /\ LET e == Val(error)
       IN  /\ isinstance(e, "UserError")
           /\ shown' = Some(ExceptionWrapper(
                  <<e.message>> \o
                  (IF str_truthy(e.fix_instructions)
                   THEN <<FixHeader, Val(e.fix_instructions)>> ELSE <<>>),
                  "yellow"))
    /\ pc' = "handled"
    /\ UNCHANGED reraised
    /\ UNCHANGED <<ctx_obj, error, kwargs, filters, oci, raised, pipeline_vars, cli_vars>>

\* lines 90-99: except SystemError
HandleSystemError ==
    /\ pc = "invoke"
    /\ error # None
    /\ LET e == Val(error)
       IN  /\ ~isinstance(e, "UserError")
           /\ isinstance(e, "SystemError")
           /\ shown' = Some(ExceptionWrapper(
                  IF debug_mode(ctx_obj) /\ str_truthy(e.debug_info)
                  THEN <<e.message, DebugHeader, Val(e.debug_info)>> \o
                       (IF str_truthy(e.original_error)
                        THEN <<OriginalHeader, Val(e.original_error)>> ELSE <<>>)
                  ELSE <<e.message, Hint>>,
                  "red"))
    /\ pc' = "handled"
    /\ UNCHANGED reraised
    /\ UNCHANGED <<ctx_obj, error, kwargs, filters, oci, raised, pipeline_vars, cli_vars>>

\* lines 100-102: except AppError
HandleAppError ==
    /\ pc = "invoke"
    /\ error # None
    /\ LET e == Val(error)
       IN  /\ ~isinstance(e, "UserError")
           /\ ~isinstance(e, "SystemError")
           /\ isinstance(e, "AppError")
           /\ shown' = Some(ExceptionWrapper(<<e.message>>, "red"))
    /\ pc' = "handled"
    /\ UNCHANGED reraised
    /\ UNCHANGED <<ctx_obj, error, kwargs, filters, oci, raised, pipeline_vars, cli_vars>>

\* what no earlier except clause has matched reaches except Exception
ReachesLastClause(e) ==
    /\ ~isinstance(e, "UserError")
    /\ ~isinstance(e, "SystemError")
    /\ ~isinstance(e, "AppError")

\* lines 103-111: except Exception, debug mode off
HandleUnexpected ==
    /\ pc = "invoke"
    /\ error # None
    /\ ReachesLastClause(Val(error))
    /\ ~debug_mode(ctx_obj)
    /\ LET error_message == str(Val(error))
           stripped == IF has_sep(error_message)
                       THEN split_tail(error_message) ELSE error_message
       IN  shown' = Some(ExceptionWrapper(stripped \o <<Hint>>, "red"))
    /\ pc' = "handled"
    /\ UNCHANGED reraised
    /\ UNCHANGED <<ctx_obj, error, kwargs, filters, oci, raised, pipeline_vars, cli_vars>>

\* lines 112-114: except Exception, debug mode on: raise
HandleUnexpectedDebug ==
    /\ pc = "invoke"
    /\ error # None
    /\ ReachesLastClause(Val(error))
    /\ debug_mode(ctx_obj)
    /\ reraised' = error
    /\ pc' = "handled"
    /\ UNCHANGED shown
    /\ UNCHANGED <<ctx_obj, error, kwargs, filters, oci, raised, pipeline_vars, cli_vars>>

NextCli ==
    \/ HandleReturn
    \/ HandleUserError
    \/ HandleSystemError
    \/ HandleAppError
    \/ HandleUnexpected
    \/ HandleUnexpectedDebug

SpecCli == InitCli /\ [][NextCli]_vars

(***************************************************************************)
(* Properties.                                                             *)
(***************************************************************************)
\* how often x occurs among the first n elements of seq
Occurrences(seq, n, x) == Cardinality({k \in 1..n : k <= Len(seq) /\ seq[k] = x})
Absent(n) == n \notin DOMAIN repo_mapping
Done == pc = "done"
Failed == pc = "failed"

RECURSIVE ReturnedRecords(_)
\* the records of the successful list calls, in call order
ReturnedRecords(calls) ==
    IF calls = <<>> THEN <<>> ELSE Head(calls).data \o ReturnedRecords(Tail(calls))

\* the record a pull request was built from
RecordOf(pull_request) ==
    [id |-> pull_request.id, repository_name |-> pull_request.repository_name]

\* C1: a name absent from the repository mapping is skipped with one log
\* entry and never makes list_pull_requests fail; the returned pull requests
\* all belong to requested names that are mapped; when every requested name
\* is absent no gateway call is made, no error is raised and the result is
\* the empty list.
C1_UnknownReposSkipped ==
    /\ raised # None => Val(raised).origin \in {"gateway_list", "gateway_diff"}
    /\ \A n \in Names :
         Absent(n) => Occurrences(log, Len(log), n) = Occurrences(repos, i - 1, n)
    /\ Done =>
         \A k \in DOMAIN Val(ret) :
            \E r \in DOMAIN repos :
               /\ ~Absent(repos[r])
               /\ Val(ret)[k].id[1] = OcidOf[repos[r]]
    /\ (\A r \in DOMAIN repos : Absent(repos[r])) =>
         /\ ~Failed
         /\ list_calls = <<>>
         /\ Done => (ret = Some(<<>>) /\ Len(log) = Len(repos))

\* C1 witness: the call returned pull requests of a mapped name although an
\* absent name came first and was logged
C1_Witness ==
    /\ Done
    /\ Len(repos) = 2 /\ Absent(repos[1]) /\ ~Absent(repos[2])
    /\ log = <<repos[1]>>
    /\ Len(Val(ret)) = 2

\* C2: when no gateway call failed, the returned list is the concatenation,
\* in the order of the repository names, of the record sequences the
\* gateway returned, record for record.
C2_ResultIsConcatenation ==
    (Done /\ \A c \in DOMAIN list_calls : list_calls[c].outcome = "ok") =>
        LET records == ReturnedRecords(list_calls)
            result == Val(ret)
        IN  /\ Len(result) = Len(records)
            /\ \A k \in DOMAIN result : RecordOf(result[k]) = records[k]
            /\ \A c \in DOMAIN list_calls :
                  c > 1 => list_calls[c - 1].repo < list_calls[c].repo

\* C2 witness: two repositories, the first returned two records and the
\* second one, and all three were returned
C2_Witness ==
    /\ Done
    /\ Len(list_calls) = 2
    /\ Len(list_calls[1].data) = 2 /\ Len(list_calls[2].data) = 1
    /\ list_calls[1].repository_id # list_calls[2].repository_id
    /\ Len(Val(ret)) = 3

\* C3: a pull request the second loop has enriched has
\* total_changes = lines_added + lines_deleted, and one it has not reached
\* yet has the three counters at zero.
C3_TotalIsSum ==
    \A k \in DOMAIN all_pull_requests :
        LET pull_request == all_pull_requests[k]
        IN  IF k < j
            THEN pull_request.total_changes =
                    pull_request.lines_added + pull_request.lines_deleted
            ELSE /\ pull_request.lines_added = 0
                 /\ pull_request.lines_deleted = 0
                 /\ pull_request.total_changes = 0

RECURSIVE FileTotal(_, _)
\* the total of one per-file count over a files list, a missing count being 0
FileTotal(files, key) ==
    IF files = <<>> THEN 0
    ELSE (IF Head(files)[key] = None THEN 0 ELSE Val(Head(files)[key]))
         + FileTotal(Tail(files), key)

\* C4: after get_pull_request_diff and update_diff_stats, a payload with a
\* summary has given the pull request the three counts of the summary (0
\* for a count the summary lacks) whatever its files list says; a payload
\* without summary has given it the per-file totals and their sum.
C4_DiffAggregationRule ==
    pc = "enrich_done" =>
        LET payload == Val(raw_diff)
            pull_request == all_pull_requests[j]
        IN  IF payload.summary # None
            THEN \A key \in SummaryKeys :
                    pull_request[key] =
                        (IF Val(payload.summary)[key] = None THEN 0
                         ELSE Val(Val(payload.summary)[key]))
            ELSE LET files == IF payload.files = None THEN <<>> ELSE Val(payload.files)
                 IN  /\ pull_request.lines_added = FileTotal(files, "lines_added")
                     /\ pull_request.lines_deleted = FileTotal(files, "lines_deleted")
                     /\ pull_request.total_changes =
                            FileTotal(files, "lines_added")
                            + FileTotal(files, "lines_deleted")

\* C4 witness: a payload whose summary and files list disagree was applied
\* and the pull request holds the counts of the summary
C4_Witness ==
    /\ pc = "enrich_done"
    /\ Val(raw_diff).summary # None /\ Val(raw_diff).files # None
    /\ Val(Val(raw_diff).summary)["lines_added"] = Some(0)
    /\ Val(Val(raw_diff).summary)["total_changes"] = Some(1)
    /\ Len(Val(Val(raw_diff).files)) = 1
    /\ Val(Val(raw_diff).files)[1]["lines_added"] = Some(1)
    /\ all_pull_requests[j].lines_added = 0
    /\ all_pull_requests[j].total_changes = 1

\* the upper-case form of each character of Alphabet
ExpectedUpper(c) == CASE c = "o" -> "O" [] c = "n" -> "N" [] OTHER -> c

\* C5: to_oci of a constructed filter holds, for each field that is not
\* None, exactly the remote key of that field: limit and created_by with the
\* value given (or the default), lifecycle_details with the status in upper
\* case; a field that is None has no key.
C5_ToOciNonNullFields ==
    pc = "filter_translated" =>
        LET field(k) == IF kwargs[k] = None THEN FilterDefaults[k] ELSE Val(kwargs[k])
            result == Val(oci)
            status == Val(field("status"))
        IN  /\ result["limit"] =
                 (IF field("limit") = None THEN None ELSE Some(field("limit")))
            /\ result["created_by"] =
                 (IF field("author") = None THEN None ELSE Some(field("author")))
            /\ result["lifecycle_details"] # None
            /\ Val(result["lifecycle_details"]) # None
            /\ LET upper == Val(Val(result["lifecycle_details"]))
               IN  /\ Len(upper) = Len(status)
                   /\ \A k \in DOMAIN status : upper[k] = ExpectedUpper(status[k])

\* C5 witness: status "on", limit 0 and author None gave lifecycle_details
\* "ON", limit 0 and no created_by
C5_Witness ==
    /\ pc = "filter_translated"
    /\ kwargs = [status |-> Some(Some(<<"o", "n">>)), limit |-> Some(Some(0)),
                 author |-> Some(None)]
    /\ Val(oci) = [lifecycle_details |-> Some(Some(<<"O", "N">>)),
                   limit |-> Some(Some(0)), created_by |-> None]

\* C6: a get_commit_diff call that failed is the last gateway call of the
\* run: list_pull_requests has failed with that error, has returned nothing
\* and has fetched no diff for a later pull request.
C6_DiffFailureIsFatal ==
    \A c \in DOMAIN diff_calls :
        /\ diff_calls[c].pr = c
        /\ diff_calls[c].outcome # "ok" =>
              /\ c = Len(diff_calls)
              /\ Failed
              /\ raised = Some(Exc(diff_calls[c].outcome, "gateway_diff"))
              /\ ret = None
              /\ j = c

\* C6 witness: the diff of the second of three pull requests failed after
\* the first had been enriched
C6_Witness ==
    /\ Failed
    /\ Len(all_pull_requests) = 3
    /\ Len(diff_calls) = 2
    /\ diff_calls[1].outcome = "ok" /\ diff_calls[2].outcome = "ServiceError"
    /\ all_pull_requests[1].total_changes > 0

\* C7 as stated: a service error of the gateway while listing one mapped
\* repository only skips that repository, the loop goes on to the next
C7_ServiceErrorSkipsRepository ==
    \A c \in DOMAIN list_calls :
        list_calls[c].outcome = "ServiceError" =>
            /\ i > list_calls[c].repo
            /\ ~Failed

\* C7 amended: a service error of the gateway while listing one mapped
\* repository is not caught: it is the last gateway call, list_pull_requests
\* has failed with it at that repository, has returned nothing and has
\* fetched no diff.
C7_ServiceErrorAborts ==
    \A c \in DOMAIN list_calls :
        list_calls[c].outcome = "ServiceError" =>
            /\ c = Len(list_calls)
            /\ Failed
            /\ raised = Some(Exc("ServiceError", "gateway_list"))
            /\ ret = None
            /\ diff_calls = <<>>
            /\ i = list_calls[c].repo

\* C7 witness: the first of two mapped repositories raised a service error
\* and the second was never listed
C7_Witness ==
    /\ Failed
    /\ Len(repos) = 2 /\ ~Absent(repos[1]) /\ ~Absent(repos[2])
    /\ Len(list_calls) = 1
    /\ list_calls[1].outcome = "ServiceError"

\* C8: no step changes the repository mapping; a loop iteration for an
\* absent name makes no gateway call; a list call is made for a mapped name
\* only, with the mapped value as the repository identifier.
C8_ResolutionIsPureLookup ==
    [][/\ repo_mapping' = repo_mapping
       /\ (InFirstLoop /\ Absent(repos[i])) =>
             (list_calls' = list_calls /\ diff_calls' = diff_calls)
       /\ list_calls' # list_calls =>
             /\ InFirstLoop
             /\ ~Absent(repos[i])
             /\ Len(list_calls') = Len(list_calls) + 1
             /\ list_calls'[Len(list_calls')].repository_id = repo_mapping[repos[i]]
             /\ list_calls'[Len(list_calls')].repository_id = OcidOf[repos[i]]
      ]_vars

\* C8 witness: an absent name was passed over without a gateway call and a
\* mapped name was then listed under its identifier
C8_Witness ==
    /\ Len(repos) = 2 /\ i = 3
    /\ Absent(repos[1]) /\ ~Absent(repos[2])
    /\ Len(list_calls) = 1
    /\ list_calls[1].repo = 2
    /\ list_calls[1].repository_id = "ocid1.repo.a"

\* C9: every repository logged as not found in the configuration is absent
\* from the mapping.
C9_NotFoundOnlyWhenAbsent ==
    \A k \in DOMAIN log : Absent(log[k])

\* C10: when a provider operation that a write command needs answers with
\* a service error, the command does not end with an exception other than
\* OCIServiceError: the error has been caught and reported by click.echo.
C10_WriteFailureIsTyped ==
    (/\ pc \in {"done", "failed"}
     /\ command # None
     /\ ProviderCalls[WriteMethod[Val(command)]] \cap provider_down # {}) =>
        /\ raised # None => Val(raised).type = "OCIServiceError"
        /\ output = <<"Unexpected error">>

\* C14: the two passes of list_pull_requests are strictly ordered: a gateway
\* list call is made only while no diff call has been made, and a diff call
\* only when the first loop has ended; in the second pass the pull request
\* at position j is enriched only right after the diff call number j, made
\* for that pull request, and the position then moves on by one, so that a
\* returned list has had exactly one diff call and one enrichment for each
\* of its pull requests, in accumulation order.
C14_PassesAreOrdered ==
    [][
        /\ list_calls' # list_calls => diff_calls = <<>> /\ diff_calls' = <<>>
        /\ diff_calls' # diff_calls =>
              /\ i > Len(repos)
              /\ list_calls' = list_calls
              /\ Len(diff_calls') = j
              /\ diff_calls'[j].pr = j
              /\ diff_calls'[j].pull_request_id = all_pull_requests[j].id
              /\ all_pull_requests' = all_pull_requests
        /\ pc = "update" =>
              /\ Len(diff_calls) = j
              /\ diff_calls[j].outcome = "ok"
              /\ j' = j + 1
              /\ \A k \in DOMAIN all_pull_requests :
                    k # j => all_pull_requests'[k] = all_pull_requests[k]
        /\ j' # j => pc = "update"
        /\ (diff_calls # <<>> /\ all_pull_requests' # all_pull_requests) => pc = "update"
        /\ pc' = "done" =>
              /\ Len(diff_calls') = Len(Val(ret'))
              /\ j' = Len(Val(ret')) + 1
              /\ \A k \in DOMAIN diff_calls' :
                    /\ diff_calls'[k].pr = k
                    /\ diff_calls'[k].outcome = "ok"
                    /\ diff_calls'[k].pull_request_id = Val(ret')[k].id
    ]_vars

\* C14 witness: a run over two mapped repositories returned two pull
\* requests after two list calls and two diff calls
C14_Witness ==
    /\ Done
    /\ Len(list_calls) = 2
    /\ Len(Val(ret)) = 2
    /\ Len(diff_calls) = 2
    /\ Val(ret)[1].id[1] # Val(ret)[2].id[1]

\* the query parameters the caller's arguments stand for: what is not passed
\* takes the default, the status in upper case, no key for an author None
ExpectedQuery ==
    LET field(k) == IF kwargs[k] = None THEN FilterDefaults[k] ELSE Val(kwargs[k])
        status == Val(field("status"))
    IN  [lifecycle_details |->
             Some(Some([k \in DOMAIN status |-> ExpectedUpper(status[k])])),
         limit |-> IF field("limit") = None THEN None ELSE Some(field("limit")),
         created_by |-> IF field("author") = None THEN None ELSE Some(field("author"))]

\* C15: every gateway list call of one list_pull_requests call receives the
\* query parameters that the caller's arguments translate to, the limit
\* among them unchanged, and the pipeline truncates nothing: the returned
\* list holds every record of every successful list call, which can be more
\* than limit.
C15_LimitPassedThrough ==
    /\ \A c \in DOMAIN list_calls : list_calls[c].query = ExpectedQuery
    /\ pc \in {"run", "update", "done"} =>
          Len(all_pull_requests) = Len(ReturnedRecords(list_calls))
    /\ Done => Len(Val(ret)) = Len(ReturnedRecords(list_calls))

\* C15 witness: with a limit passed by the caller, two list calls were made
\* and the returned list holds more pull requests than the limit
C15_Witness ==
    /\ Done
    /\ kwargs.limit # None
    /\ Len(list_calls) >= 2
    /\ Len(Val(ret)) > Val(Val(kwargs.limit))

\* C16: the repository identifier of every diff call is the provider
\* identifier of the repository the pull request was listed from, the one
\* the list call for that repository was given.
C16_DiffUsesProviderId ==
    \A d \in DOMAIN diff_calls :
        /\ diff_calls[d].repository_id = Some(diff_calls[d].pull_request_id[1])
        /\ \E c \in DOMAIN list_calls :
              Some(list_calls[c].repository_id) = diff_calls[d].repository_id

\* a pull request as constructed from its record, before any enrichment
Fresh(pull_request) == PullRequest(RecordOf(pull_request))

\* C17: update_diff_stats overwrites and never accumulates: whatever
\* counters an earlier payload left on the pull request, after
\* update_diff_stats with a payload B the three counters are those B alone
\* gives a pull request that was never enriched, and applying B once more,
\* or another payload and then B, changes nothing; the same holds for the
\* raw payload of the gateway, whatever its shape.
C17_EnrichmentOverwrites ==
    pc = "enrich_done" =>
        LET pull_request == all_pull_requests[j]
            B == Val(diff_data)
        IN  /\ Counters(pull_request) = Counters(update_diff_stats(Fresh(pull_request), B))
            /\ update_diff_stats(pull_request, B) = pull_request
            /\ \A A \in {Val(raw_diff), B} :
                  update_diff_stats(update_diff_stats(pull_request, A), B) = pull_request
            /\ update_diff_stats(pull_request, Val(raw_diff)) =
                  update_diff_stats(Fresh(pull_request), Val(raw_diff))

\* C17 witness: a pull request whose counters an earlier payload had set
\* above zero was enriched with a payload that gives other counters
C17_Witness ==
    /\ pc = "enrich_done"
    /\ before # None
    /\ Val(before).lines_added > 0
    /\ Val(before).total_changes > 0
    /\ Val(before) # Counters(all_pull_requests[j])

\* C18: the two places that derive diff statistics agree: enriching with the
\* payload as get_pull_request_diff returns it gives the three counters that
\* update_diff_stats gives with the raw payload of the gateway, for a
\* payload with a summary, with a files list only, and for an empty one;
\* and a payload that has a summary is returned unchanged.
C18_DerivationsAgree ==
    pc = "enrich_done" =>
        LET pull_request == all_pull_requests[j]
            raw == Val(raw_diff)
        IN  /\ Counters(pull_request) = Counters(update_diff_stats(Fresh(pull_request), raw))
            /\ raw.summary # None => Val(diff_data) = raw
            /\ ~dict_truthy(raw) => Val(diff_data) = raw

\* C18 witness: a payload with a files list and no summary, whose files add
\* and delete lines, was normalised and applied
C18_Witness ==
    /\ pc = "enrich_done"
    /\ Val(raw_diff).summary = None
    /\ Val(raw_diff).files # None
    /\ Val(diff_data).summary # None
    /\ all_pull_requests[j].lines_added > 0
    /\ all_pull_requests[j].lines_deleted > 0

Handled == pc = "handled" /\ error # None

\* the pieces of a displayed message
Pieces(text) == {text[k] : k \in DOMAIN text}

\* C11: for a SystemError the displayed message holds the diagnostic detail
\* if and only if debug mode is on: without debug mode it is the message and
\* the hint to run with --debug, and with debug mode the debug information
\* and the original error are shown whenever the error carries them.
C11_SystemDetailIffDebug ==
    (Handled /\ Val(error).class = "SystemError") =>
        LET e == Val(error)
            message == Val(shown).message
        IN  /\ shown # None
            /\ ~debug_mode(ctx_obj) => message = <<e.message, Hint>>
            /\ debug_mode(ctx_obj) =>
                 /\ str_truthy(e.original_error) =>
                      \E k \in 1..(Len(message) - 1) :
                          /\ message[k] = OriginalHeader
                          /\ message[k + 1] = Val(e.original_error)
                 /\ str_truthy(e.debug_info) =>
                      \E k \in 1..(Len(message) - 1) :
                          /\ message[k] = DebugHeader
                          /\ message[k + 1] = Val(e.debug_info)

\* C12: a UserError, AuthenticationError or ConfigurationError is displayed
\* as its message followed by its fix instructions when it has any, the same
\* with and without debug mode, never with the hint or the colour of the
\* system-error and unexpected-error branches, and is never let through.
C12_UserErrorDisplay ==
    (Handled /\ Val(error).class \in UserClasses) =>
        LET e == Val(error)
        IN  /\ reraised = None
            /\ shown # None
            /\ Val(shown).fg = "yellow"
            /\ Hint \notin Pieces(Val(shown).message)
            /\ Val(shown).message =
                 IF e.fix_instructions \in {None, Some("")}
                 THEN <<e.message>>
                 ELSE <<e.message, FixHeader, Val(e.fix_instructions)>>

\* C12 witness: an AuthenticationError with fix instructions was displayed
\* in debug mode
C12_Witness ==
    /\ Handled
    /\ Val(error).class = "AuthenticationError"
    /\ Val(error).fix_instructions = Some("detail")
    /\ ctx_obj = Some(Some(TRUE))
    /\ shown # None
    /\ Len(Val(shown).message) = 3

\* C13: for an exception outside the application hierarchy, without debug
\* mode the displayed message is generic: it holds no name of an exception
\* class and no piece of the text of the exception; with debug mode the
\* exception is let through unchanged and nothing is displayed in its place.
C13_UnexpectedIsGeneric ==
    (Handled /\ Val(error).class \in OtherClasses) =>
        IF debug_mode(ctx_obj)
        THEN reraised = error /\ shown = None
        ELSE /\ reraised = None
             /\ shown # None
             /\ Pieces(Val(shown).message) \cap TypeNames = {}
             /\ Pieces(Val(shown).message) \cap Pieces(Val(error).text) = {}
====
